---- MODULE Spec2Model ----
(***************************************************************************)
(* Slug generation, validation and uniqueness checking of the component    *)
(* marketplace front end (useComponentSlug hook), with the remote          *)
(* "components" table it queries.                                          *)
(*                                                                         *)
(* A string is a sequence of characters; a character is a one-letter TLA+  *)
(* string ("a", "-", "!", ...).                                            *)
(***************************************************************************)
EXTENDS Integers, Sequences, FiniteSets, TLC

VARIABLES
    components,     \* rows of the remote "components" table
    gen,            \* generateUniqueSlug calls: locals and position
    qlog,           \* per generateUniqueSlug call: the oracle queries it issued
    chk,            \* checkSlug calls: argument, position, queries issued
    latest,         \* the most recently started checkSlug call (0: none yet)
    slugAvailable,  \* slugAvailableAtom
    slugChecking,   \* slugCheckingAtom
    slugError,      \* slugErrorAtom
    form,           \* ComponentDetailsForm: props, state, hook results, render
    video           \* ComponentVideoPreview: props, state, the video element

vars == <<components, gen, qlog, chk, latest,
          slugAvailable, slugChecking, slugError, form, video>>

atoms == <<slugAvailable, slugChecking, slugError>>

----------------------------------------------------------------------------
(* Bounds of the model *)

MaxSuffix == 3      \* largest suffix a generateUniqueSlug call may probe
MaxChecks == 3      \* checkSlug calls started during a behaviour
RetryBound == 2     \* the retry bound B of the exhaustion claim
MaxJointChecks == 2 \* checkSlug calls started beside a generateUniqueSlug call
MaxNameLen == 4     \* longest string the pure functions are applied to

----------------------------------------------------------------------------
(* Characters *)

UpperLetters == <<"A","B","C","D","E","F","G","H","I","J","K","L","M",
                  "N","O","P","Q","R","S","T","U","V","W","X","Y","Z">>
LowerLetters == <<"a","b","c","d","e","f","g","h","i","j","k","l","m",
                  "n","o","p","q","r","s","t","u","v","w","x","y","z">>
DigitChars == <<"0","1","2","3","4","5","6","7","8","9">>

Range(f) == {f[i] : i \in DOMAIN f}

\* IsSlugChar, had the class been [a-z]
IsSlugChar_LettersOnly(ch) == ch \in Range(LowerLetters)

\* the character class [a-z0-9]
IsSlugChar(ch) == ch \in Range(LowerLetters) \cup Range(DigitChars)

\* toLowerCase, had the call been left out
toLowerCase_Identity(ch) == ch

\* String.prototype.toLowerCase on one character
toLowerCase(ch) ==
    IF ch \in Range(UpperLetters)
    THEN LowerLetters[CHOOSE i \in DOMAIN UpperLetters : UpperLetters[i] = ch]
    ELSE ch

\* decimal rendering of a non-negative integer, as in `${suffix}`
RECURSIVE Decimal(_)
Decimal(n) ==
    IF n < 10 THEN <<DigitChars[n + 1]>>
    ELSE Decimal(n \div 10) \o <<DigitChars[(n % 10) + 1]>>

----------------------------------------------------------------------------
(* generateSlug *)

LowerCased(s) == [i \in DOMAIN s |-> toLowerCase(s[i])]

RECURSIVE DropWhileNotSlugChar(_)
DropWhileNotSlugChar(s) ==
    IF s = <<>> \/ IsSlugChar(Head(s)) THEN s
    ELSE DropWhileNotSlugChar(Tail(s))

\* .replace(/[^a-z0-9]+/g, "-")
RECURSIVE ReplaceNonSlugRuns(_)
ReplaceNonSlugRuns(s) ==
    IF s = <<>> THEN <<>>
    ELSE IF IsSlugChar(Head(s)) THEN <<Head(s)>> \o ReplaceNonSlugRuns(Tail(s))
    ELSE <<"-">> \o ReplaceNonSlugRuns(DropWhileNotSlugChar(s))

RECURSIVE DropLeadingHyphens(_)
DropLeadingHyphens(s) ==
    IF s = <<>> \/ Head(s) # "-" THEN s
    ELSE DropLeadingHyphens(Tail(s))

RECURSIVE DropTrailingHyphens(_)
DropTrailingHyphens(s) ==
    IF s = <<>> \/ s[Len(s)] # "-" THEN s
    ELSE DropTrailingHyphens(SubSeq(s, 1, Len(s) - 1))

\* StripHyphens, had the regex been /^-+/ only
StripHyphens_LeadingOnly(s) == DropLeadingHyphens(s)

\* .replace(/^-+|-+$/g, "")
StripHyphens(s) == DropTrailingHyphens(DropLeadingHyphens(s))

\* .replace(/-+/g, "-")
RECURSIVE CollapseHyphens(_)
CollapseHyphens(s) ==
    IF s = <<>> THEN <<>>
    ELSE IF Head(s) = "-"
         THEN <<"-">> \o CollapseHyphens(DropLeadingHyphens(s))
         ELSE <<Head(s)>> \o CollapseHyphens(Tail(s))

\* generateSlug, had the hyphens been stripped before the replacement
generateSlug_StripFirst(name) ==
    CHOOSE slug \in
        {CollapseHyphens(replaced) : replaced \in
            {ReplaceNonSlugRuns(stripped) : stripped \in
                {StripHyphens(lowered) : lowered \in
                    {LowerCased(name)}}}} : TRUE

\* the four chained calls; each pass is applied to the value the previous
\* pass returned
generateSlug(name) ==
    CHOOSE slug \in
        {CollapseHyphens(stripped) : stripped \in
            {StripHyphens(replaced) : replaced \in
                {ReplaceNonSlugRuns(lowered) : lowered \in
                    {LowerCased(name)}}}} : TRUE

----------------------------------------------------------------------------
(* isValidSlug: /^[a-z0-9]+(?:-[a-z0-9]+)*$/ as the automaton of the regex.  *)
(* "start": nothing read; "seg": inside a segment; "hyp": just after a       *)
(* hyphen; "rej": no match possible.                                         *)

SlugRegexStep(q, ch) ==
    IF q = "rej" THEN "rej"
    ELSE IF IsSlugChar(ch) THEN "seg"
    ELSE IF ch = "-" /\ q = "seg" THEN "hyp"
    ELSE "rej"

RECURSIVE SlugRegexRun(_, _)
SlugRegexRun(q, s) ==
    IF s = <<>> THEN q ELSE SlugRegexRun(SlugRegexStep(q, Head(s)), Tail(s))

\* isValidSlug, had the regex allowed a trailing hyphen
isValidSlug_TrailingHyphen(slug) ==
    SlugRegexRun("start", slug) \in {"seg", "hyp"}

isValidSlug(slug) == SlugRegexRun("start", slug) = "seg"

----------------------------------------------------------------------------
(* Inputs *)

MyButtonName == <<"M","y"," ","B","u","t","t","o","n","!","!">>
StarsName == <<"*","*","*">>
MyButton == <<"m","y","-","b","u","t","t","o","n">>
InvalidSlugInput == <<"I","n","v","a","l","i","d"," ","S","l","u","g","!">>

\* names handed to generateUniqueSlug
GenNames == {MyButtonName, StarsName, <<>>, <<"A","-","-","b">>}

Users == {"u1", "u2"}

\* rows the "components" table may hold in the resolver's behaviours
ResolverRows ==
    {[component_slug |-> IF i = 0 THEN MyButton
                         ELSE MyButton \o <<"-">> \o Decimal(i),
      user_id |-> u] : i \in 0..MaxSuffix, u \in Users}

GenCalls == {1}

----------------------------------------------------------------------------
(* The remote table and checkSlugUnique *)

\* select("id").eq("component_slug", slug): the rows the query matches
MatchingRows(slug) == {r \in components : r.component_slug = slug}

\* what the awaited query may resolve to: an error, or the matching rows
QueryResults(slug) ==
    {[error |-> TRUE, rows |-> 0],
     [error |-> FALSE, rows |-> Cardinality(MatchingRows(slug))]}

\* checkSlugUnique, had it returned true on a query error
checkSlugUnique_ErrorAsUnique(res) == IF res.error THEN TRUE ELSE res.rows = 0

\* checkSlugUnique, had it compared data.length with !== 0
checkSlugUnique_Negated(res) == IF res.error THEN FALSE ELSE res.rows # 0

\* checkSlugUnique's return value for a query result
checkSlugUnique(res) == IF res.error THEN FALSE ELSE res.rows = 0

\* how the oracle answered, for the query log
Answer(res) ==
    IF res.error THEN "error" ELSE IF res.rows = 0 THEN "free" ELSE "taken"

\* another session inserts a row into the table
StoreInsert(row) ==
    /\ row \notin components
    /\ components' = components \cup {row}
    /\ UNCHANGED <<form, video, gen, qlog, chk,
                   latest, slugAvailable, slugChecking, slugError>>

----------------------------------------------------------------------------
(* generateUniqueSlug *)

IdleGen == [pc |-> "idle", baseName |-> <<>>, newSlug |-> <<>>,
            isUnique |-> FALSE, suffix |-> 0]

\* SuffixedSlug, had the template left out the hyphen
SuffixedSlug_NoHyphen(baseName, suffix) ==
    generateSlug(baseName) \o Decimal(suffix)

\* `${generateSlug(baseName)}-${suffix}`
SuffixedSlug(baseName, suffix) ==
    generateSlug(baseName) \o <<"-">> \o Decimal(suffix)

\* SuffixAfter, had suffix been one counter shared by all calls
SuffixAfter_Shared(g) ==
    IF g.pc = "L45" THEN 1
    ELSE (CHOOSE n \in {gen[c].suffix : c \in DOMAIN gen} :
             \A c \in DOMAIN gen : gen[c].suffix <= n) + 1

\* SuffixAfter, had suffix been initialised with 0
SuffixAfter_FromZero(g) == IF g.pc = "L45" THEN 0 ELSE g.suffix + 1

\* the value of suffix once the awaited checkSlugUnique has returned:
\* `let suffix = 1` after the first await, `suffix += 1` after a later one
SuffixAfter(g) == IF g.pc = "L45" THEN 1 ELSE g.suffix + 1

SetAnswer(log, a) == [log EXCEPT ![Len(log)].ans = a]

\* GenStart, had generateUniqueSlug shown its lookup through slugCheckingAtom
GenStart_SetsChecking(c, name) ==
    /\ gen[c].pc = "idle"
    /\ gen' = [gen EXCEPT ![c] = [pc |-> "L45", baseName |-> name,
                                  newSlug |-> generateSlug(name),
                                  isUnique |-> FALSE, suffix |-> 0]]
    /\ qlog' = [qlog EXCEPT ![c] =
                    <<[cand |-> generateSlug(name), ans |-> "pending"]>>]
    /\ slugChecking' = TRUE
    /\ UNCHANGED <<form, video, components, chk, latest,
                   slugAvailable, slugError>>

\* the call, up to its first await
GenStart(c, name) ==
    /\ gen[c].pc = "idle"
    /\ gen' = [gen EXCEPT ![c] = [pc |-> "L45", baseName |-> name,
                                  newSlug |-> generateSlug(name),
                                  isUnique |-> FALSE, suffix |-> 0]]
    /\ qlog' = [qlog EXCEPT ![c] =
                    <<[cand |-> generateSlug(name), ans |-> "pending"]>>]
    /\ UNCHANGED <<form, video, components, chk, latest,
                   slugAvailable, slugChecking, slugError>>

\* GenReturn, had the call inserted a row for the slug it returns
GenReturn_Commits(c) ==
    /\ gen[c].pc \in {"L45", "L50"}
    /\ \E res \in QueryResults(gen[c].newSlug) :
          /\ checkSlugUnique(res)
          /\ gen' = [gen EXCEPT ![c].pc = "done",
                                ![c].isUnique = TRUE,
                                ![c].suffix = SuffixAfter(gen[c])]
          /\ qlog' = [qlog EXCEPT ![c] = SetAnswer(@, Answer(res))]
    /\ components' = components \cup
                         {[component_slug |-> gen[c].newSlug, user_id |-> "u1"]}
    /\ UNCHANGED <<form, video, chk, latest, slugAvailable,
                   slugChecking, slugError>>

\* GenReturn, had a returned slug been reserved against other calls
GenReturn_Exclusive(c) ==
    /\ gen[c].pc \in {"L45", "L50"}
    /\ \A d \in DOMAIN gen \ {c} :
          ~(gen[d].pc = "done" /\ gen[d].newSlug = gen[c].newSlug)
    /\ \E res \in QueryResults(gen[c].newSlug) :
          /\ checkSlugUnique(res)
          /\ gen' = [gen EXCEPT ![c].pc = "done",
                                ![c].isUnique = TRUE,
                                ![c].suffix = SuffixAfter(gen[c])]
          /\ qlog' = [qlog EXCEPT ![c] = SetAnswer(@, Answer(res))]
    /\ UNCHANGED <<form, video, components, chk, latest,
                   slugAvailable, slugChecking, slugError>>

\* the awaited query resolves, the loop condition is false: return newSlug
GenReturn(c) ==
    /\ gen[c].pc \in {"L45", "L50"}
    /\ \E res \in QueryResults(gen[c].newSlug) :
          /\ checkSlugUnique(res)
          /\ gen' = [gen EXCEPT ![c].pc = "done",
                                ![c].isUnique = TRUE,
                                ![c].suffix = SuffixAfter(gen[c])]
          /\ qlog' = [qlog EXCEPT ![c] = SetAnswer(@, Answer(res))]
    /\ UNCHANGED <<form, video, components, chk, latest,
                   slugAvailable, slugChecking, slugError>>

\* GenRetry, had the loop been an if: only the first collision is retried
GenRetry_Once(c) ==
    /\ gen[c].pc = "L45"
    /\ SuffixAfter(gen[c]) <= MaxSuffix
    /\ \E res \in QueryResults(gen[c].newSlug) :
          /\ ~checkSlugUnique(res)
          /\ gen' = [gen EXCEPT
                        ![c].pc = "L50",
                        ![c].isUnique = FALSE,
                        ![c].newSlug = SuffixedSlug(gen[c].baseName,
                                                    SuffixAfter(gen[c])),
                        ![c].suffix = SuffixAfter(gen[c])]
          /\ qlog' = [qlog EXCEPT ![c] =
                          Append(SetAnswer(@, Answer(res)),
                                 [cand |-> SuffixedSlug(gen[c].baseName,
                                                        SuffixAfter(gen[c])),
                                  ans |-> "pending"])]
    /\ UNCHANGED <<form, video, components, chk, latest,
                   slugAvailable, slugChecking, slugError>>

\* the awaited query resolves, the loop condition is true: next candidate,
\* up to its await
GenRetry(c) ==
    /\ gen[c].pc \in {"L45", "L50"}
    /\ SuffixAfter(gen[c]) <= MaxSuffix
    /\ \E res \in QueryResults(gen[c].newSlug) :
          /\ ~checkSlugUnique(res)
          /\ gen' = [gen EXCEPT
                        ![c].pc = "L50",
                        ![c].isUnique = FALSE,
                        ![c].newSlug = SuffixedSlug(gen[c].baseName,
                                                    SuffixAfter(gen[c])),
                        ![c].suffix = SuffixAfter(gen[c])]
          /\ qlog' = [qlog EXCEPT ![c] =
                          Append(SetAnswer(@, Answer(res)),
                                 [cand |-> SuffixedSlug(gen[c].baseName,
                                                        SuffixAfter(gen[c])),
                                  ans |-> "pending"])]
    /\ UNCHANGED <<form, video, components, chk, latest,
                   slugAvailable, slugChecking, slugError>>

----------------------------------------------------------------------------
(* checkSlug *)

CheckCalls == 1..MaxChecks

\* slugs typed into the manual-edit field
CheckInputs == {InvalidSlugInput, MyButton, MyButton \o <<"-", "1">>}

\* rows the "components" table may hold in the checker's behaviours
CheckerRows ==
    {[component_slug |-> s, user_id |-> u] :
        s \in {x \in CheckInputs : isValidSlug(x)}, u \in Users}

InvalidFormatMessage == "Invalid slug format"
TakenMessage == "This slug is already taken"

IdleCheck == [pc |-> "idle", slug |-> <<>>, queried |-> <<>>, ans |-> "none"]

\* setSlugAvailable(isUnique)
AvailableValue(isUnique) == IF isUnique THEN "true" ELSE "false"

\* CheckSlugInvalid, had the error been cleared after the format check
CheckSlugInvalid_ErrorCleared(k, slug) ==
    /\ k = latest + 1
    /\ chk[k].pc = "idle"
    /\ ~isValidSlug(slug)
    /\ slugAvailable' = "false"
    /\ slugError' = "null"
    /\ slugChecking' = FALSE
    /\ chk' = [chk EXCEPT ![k] = [pc |-> "done", slug |-> slug,
                                  queried |-> <<>>, ans |-> "none"]]
    /\ latest' = k
    /\ UNCHANGED <<form, video, components, gen, qlog>>

\* checkSlug on a slug that fails isValidSlug: the whole call runs without
\* an await
CheckSlugInvalid(k, slug) ==
    /\ k = latest + 1
    /\ chk[k].pc = "idle"
    /\ ~isValidSlug(slug)
    /\ slugAvailable' = "false"
    /\ slugError' = InvalidFormatMessage
    /\ slugChecking' = FALSE
    /\ chk' = [chk EXCEPT ![k] = [pc |-> "done", slug |-> slug,
                                  queried |-> <<>>, ans |-> "none"]]
    /\ latest' = k
    /\ UNCHANGED <<form, video, components, gen, qlog>>

\* CheckSlugStart, had setSlugError(null) been left out
CheckSlugStart_ErrorKept(k, slug) ==
    /\ k = latest + 1
    /\ chk[k].pc = "idle"
    /\ isValidSlug(slug)
    /\ slugChecking' = TRUE
    /\ chk' = [chk EXCEPT ![k] = [pc |-> "await", slug |-> slug,
                                  queried |-> <<slug>>, ans |-> "pending"]]
    /\ latest' = k
    /\ UNCHANGED <<form, video, components, gen, qlog,
                   slugAvailable, slugError>>

\* CheckSlugStart, had the previous verdict been reset when a check starts
CheckSlugStart_ResetsAvailable(k, slug) ==
    /\ k = latest + 1
    /\ chk[k].pc = "idle"
    /\ isValidSlug(slug)
    /\ slugChecking' = TRUE
    /\ slugError' = "null"
    /\ slugAvailable' = "null"
    /\ chk' = [chk EXCEPT ![k] = [pc |-> "await", slug |-> slug,
                                  queried |-> <<slug>>, ans |-> "pending"]]
    /\ latest' = k
    /\ UNCHANGED <<form, video, components, gen, qlog>>

\* checkSlug on a slug that passes isValidSlug, up to its await
CheckSlugStart(k, slug) ==
    /\ k = latest + 1
    /\ chk[k].pc = "idle"
    /\ isValidSlug(slug)
    /\ slugChecking' = TRUE
    /\ slugError' = "null"
    /\ chk' = [chk EXCEPT ![k] = [pc |-> "await", slug |-> slug,
                                  queried |-> <<slug>>, ans |-> "pending"]]
    /\ latest' = k
    /\ UNCHANGED <<form, video, components, gen, qlog, slugAvailable>>

\* CheckSlugResume, had checkSlug probed a suffixed candidate after a
\* collision
CheckSlugResume_Probing(k) ==
    /\ chk[k].pc = "await"
    /\ \E res \in QueryResults(chk[k].queried[Len(chk[k].queried)]) :
          IF checkSlugUnique(res) \/ Len(chk[k].queried) > 1
          THEN /\ slugAvailable' = AvailableValue(checkSlugUnique(res))
               /\ slugError' = IF ~checkSlugUnique(res) THEN TakenMessage
                               ELSE slugError
               /\ slugChecking' = FALSE
               /\ chk' = [chk EXCEPT ![k].pc = "done",
                                     ![k].ans = Answer(res)]
          ELSE /\ chk' = [chk EXCEPT ![k].queried =
                             Append(@, chk[k].slug \o <<"-", "1">>)]
               /\ UNCHANGED <<slugAvailable, slugError, slugChecking>>
    /\ UNCHANGED <<form, video, components, gen, qlog, latest>>

\* CheckSlugResume, had checking stayed true while another call is in flight
CheckSlugResume_CountsInFlight(k) ==
    /\ chk[k].pc = "await"
    /\ \E res \in QueryResults(chk[k].slug) :
          /\ slugAvailable' = AvailableValue(checkSlugUnique(res))
          /\ slugError' = IF ~checkSlugUnique(res) THEN TakenMessage
                          ELSE slugError
          /\ slugChecking' = \E j \in DOMAIN chk \ {k} : chk[j].pc = "await"
          /\ chk' = [chk EXCEPT ![k].pc = "done", ![k].ans = Answer(res)]
    /\ UNCHANGED <<form, video, components, gen, qlog, latest>>

\* the awaited checkSlugUnique returns: the rest of checkSlug
CheckSlugResume(k) ==
    /\ chk[k].pc = "await"
    /\ \E res \in QueryResults(chk[k].slug) :
          /\ slugAvailable' = AvailableValue(checkSlugUnique(res))
          /\ slugError' = IF ~checkSlugUnique(res) THEN TakenMessage
                          ELSE slugError
          /\ slugChecking' = FALSE
          /\ chk' = [chk EXCEPT ![k].pc = "done", ![k].ans = Answer(res)]
    /\ UNCHANGED <<form, video, components, gen, qlog, latest>>

----------------------------------------------------------------------------
(* ComponentDetailsForm: the slug field, the results of                     *)
(* useIsCheckSlugAvailable, and the messages rendered under the field       *)

CheckingMessage == "Checking slug availability..."
AvailableMessage == "This slug is available"
OwnedMessage == "You already have a component with this slug"

\* values of the component_slug field
FormSlugs == {<<>>, MyButton, MyButton \o <<"-", "1">>, InvalidSlugInput}

\* what useIsCheckSlugAvailable may return: isAvailable, isChecking, error
HookResults ==
    [isAvailable : {"undefined", "true", "false"},
     isChecking : BOOLEAN,
     error : {"null", "error"}]

\* StatusMessage, had the test been slugAvailable !== false
StatusMessage_NotFalse(f) ==
    IF Len(f.component_slug) > 0 /\ f.slugError = "null"
           /\ f.isSlugManuallyEdited
    THEN IF f.isSlugChecking THEN CheckingMessage
         ELSE IF f.slugAvailable # "false" THEN AvailableMessage
         ELSE OwnedMessage
    ELSE "none"

\* the message rendered by the block guarded by
\* slug?.length > 0 && !slugError && isSlugManuallyEdited
StatusMessage(f) ==
    IF Len(f.component_slug) > 0 /\ f.slugError = "null"
           /\ f.isSlugManuallyEdited
    THEN IF f.isSlugChecking THEN CheckingMessage
         ELSE IF f.slugAvailable = "true" THEN AvailableMessage
         ELSE OwnedMessage
    ELSE "none"

\* the body of the component run on the state f: slug_available is copied
\* from the hook result when that is defined, and the messages are rendered
Render(f) ==
    [f EXCEPT !.slug_available =
                  IF f.slugAvailable # "undefined" THEN f.slugAvailable ELSE @,
              !.errorShown = (f.slugError # "null"),
              !.statusShown = StatusMessage(f)]

\* the form after its first render
InitialForm(isSlugReadOnly) ==
    Render([isSlugReadOnly |-> isSlugReadOnly,
            component_slug |-> <<>>,
            isSlugManuallyEdited |-> FALSE,
            slugAvailable |-> "undefined",
            isSlugChecking |-> FALSE,
            slugError |-> "null",
            slug_available |-> "undefined",
            errorShown |-> FALSE,
            statusShown |-> "none"])

\* disabled={isSlugReadOnly || (isSlugChecking && !isSlugManuallyEdited)}
SlugInputDisabled(f) ==
    f.isSlugReadOnly \/ (f.isSlugChecking /\ ~f.isSlugManuallyEdited)

\* onChange of the slug input, and the render that follows
SlugFieldChange(value) ==
    /\ ~SlugInputDisabled(form)
    /\ form' = Render([form EXCEPT !.isSlugManuallyEdited = TRUE,
                                   !.component_slug = value])
    /\ UNCHANGED <<components, gen, qlog, chk, latest,
                   slugAvailable, slugChecking, slugError, video>>

\* useIsCheckSlugAvailable returns a new result, and the component renders
SlugHookResult(res) ==
    /\ form' = Render([form EXCEPT !.slugAvailable = res.isAvailable,
                                   !.isSlugChecking = res.isChecking,
                                   !.slugError = res.error])
    /\ UNCHANGED <<components, gen, qlog, chk, latest,
                   slugAvailable, slugChecking, slugError, video>>

\* usePrefillAutogeneratedSlug writes the slug field through the form it is
\* given (it receives isSlugManuallyEdited, not its setter)
PrefillSlug(value) ==
    /\ form' = Render([form EXCEPT !.component_slug = value])
    /\ UNCHANGED <<components, gen, qlog, chk, latest,
                   slugAvailable, slugChecking, slugError, video>>

----------------------------------------------------------------------------
(* ComponentVideoPreview: the hover handlers, the <video> element and the   *)
(* promises returned by play(). The handlers run while the component is     *)
(* mounted, when videoRef.current is the element.                           *)

MaxHovers == 4      \* mouse-enter events during a behaviour

VideoUrl == "https://cdn/preview.mp4"

\* toggleVideoIcon: the icon element, when the page has one, is hidden or
\* shown
toggleVideoIcon(icon, hide) ==
    IF icon = "absent" THEN icon ELSE IF hide THEN "hidden" ELSE "visible"

\* the preview after its first render: no source (preload="none", no src
\* attribute), nothing playing, no play() promise outstanding. The counters
\* record the calls made on the element.
InitialVideo(video_url, icon) ==
    [video_url |-> video_url,
     isVideoLoaded |-> FALSE,
     hovered |-> FALSE,
     icon |-> icon,
     src |-> "none",
     paused |-> TRUE,
     pendingFirst |-> 0,    \* play() promises with the then-callback
     pendingReplay |-> 0,   \* play() promises without it
     enters |-> 0, loads |-> 0, plays |-> 0, pauses |-> 0]

\* handleMouseEnter, had the source been assigned on every mouse-enter
handleMouseEnter_AlwaysLoads ==
    /\ ~video.hovered
    /\ video.enters < MaxHovers
    /\ video' =
          IF video.video_url = "null"
          THEN [video EXCEPT !.hovered = TRUE,
                             !.icon = toggleVideoIcon(@, TRUE),
                             !.enters = @ + 1]
          ELSE [video EXCEPT !.hovered = TRUE,
                             !.icon = toggleVideoIcon(@, TRUE),
                             !.enters = @ + 1,
                             !.src = video.video_url,
                             !.loads = @ + 1,
                             !.paused = FALSE,
                             !.plays = @ + 1,
                             !.pendingFirst = @ + 1]
    /\ UNCHANGED <<components, gen, qlog, chk, latest,
                   slugAvailable, slugChecking, slugError, form>>

\* handleMouseEnter
handleMouseEnter ==
    /\ ~video.hovered
    /\ video.enters < MaxHovers
    /\ video' =
          IF video.video_url = "null"
          THEN [video EXCEPT !.hovered = TRUE,
                             !.icon = toggleVideoIcon(@, TRUE),
                             !.enters = @ + 1]
          ELSE IF ~video.isVideoLoaded
          THEN [video EXCEPT !.hovered = TRUE,
                             !.icon = toggleVideoIcon(@, TRUE),
                             !.enters = @ + 1,
                             !.src = video.video_url,
                             !.loads = @ + 1,
                             !.paused = FALSE,
                             !.plays = @ + 1,
                             !.pendingFirst = @ + 1]
          ELSE [video EXCEPT !.hovered = TRUE,
                             !.icon = toggleVideoIcon(@, TRUE),
                             !.enters = @ + 1,
                             !.paused = FALSE,
                             !.plays = @ + 1,
                             !.pendingReplay = @ + 1]
    /\ UNCHANGED <<components, gen, qlog, chk, latest,
                   slugAvailable, slugChecking, slugError, form>>

\* handleMouseLeave
handleMouseLeave ==
    /\ video.hovered
    /\ video' = [video EXCEPT !.hovered = FALSE,
                              !.icon = toggleVideoIcon(@, FALSE),
                              !.paused = TRUE, !.pauses = @ + 1]
    /\ UNCHANGED <<components, gen, qlog, chk, latest,
                   slugAvailable, slugChecking, slugError, form>>

\* a play() promise of the first branch is fulfilled: setIsVideoLoaded(true)
PlayFirstFulfilled ==
    /\ video.pendingFirst > 0
    /\ video' = [video EXCEPT !.pendingFirst = @ - 1, !.isVideoLoaded = TRUE]
    /\ UNCHANGED <<components, gen, qlog, chk, latest,
                   slugAvailable, slugChecking, slugError, form>>

\* a play() promise of the first branch is rejected: .catch(() => {})
PlayFirstRejected ==
    /\ video.pendingFirst > 0
    /\ video' = [video EXCEPT !.pendingFirst = @ - 1]
    /\ UNCHANGED <<components, gen, qlog, chk, latest,
                   slugAvailable, slugChecking, slugError, form>>

\* a play() promise of the else branch settles: nothing is attached to its
\* fulfilment, and its rejection is swallowed
PlayReplaySettled ==
    /\ video.pendingReplay > 0
    /\ video' = [video EXCEPT !.pendingReplay = @ - 1]
    /\ UNCHANGED <<components, gen, qlog, chk, latest,
                   slugAvailable, slugChecking, slugError, form>>

----------------------------------------------------------------------------
(* Specification of the resolver *)

InitResolver ==
    /\ components \in SUBSET ResolverRows
    /\ gen = [c \in GenCalls |-> IdleGen]
    /\ qlog = [c \in GenCalls |-> <<>>]
    /\ chk = [k \in CheckCalls |-> IdleCheck]
    /\ latest = 0
    /\ slugAvailable = "null"
    /\ slugChecking = FALSE
    /\ slugError = "null"
    /\ form = InitialForm(TRUE)
    /\ video = InitialVideo("null", "absent")

NextResolver ==
    \/ \E c \in GenCalls, name \in GenNames : GenStart(c, name)
    \/ \E c \in GenCalls : GenReturn(c)
    \/ \E c \in GenCalls : GenRetry(c)
    \/ \E row \in ResolverRows : StoreInsert(row)

SpecResolver == InitResolver /\ [][NextResolver]_vars

----------------------------------------------------------------------------
(* Specification of the checker *)

InitChecker ==
    /\ components \in SUBSET CheckerRows
    /\ gen = [c \in GenCalls |-> IdleGen]
    /\ qlog = [c \in GenCalls |-> <<>>]
    /\ chk = [k \in CheckCalls |-> IdleCheck]
    /\ latest = 0
    /\ slugAvailable = "null"
    /\ slugChecking = FALSE
    /\ slugError = "null"
    /\ form = InitialForm(TRUE)
    /\ video = InitialVideo("null", "absent")

NextChecker ==
    \/ \E k \in CheckCalls, slug \in CheckInputs : CheckSlugInvalid(k, slug)
    \/ \E k \in CheckCalls, slug \in CheckInputs : CheckSlugStart(k, slug)
    \/ \E k \in CheckCalls : CheckSlugResume(k)
    \/ \E row \in CheckerRows : StoreInsert(row)

SpecChecker == InitChecker /\ [][NextChecker]_vars

----------------------------------------------------------------------------
(* Properties of generateUniqueSlug, under SpecResolver *)

MyButton1 == MyButton \o <<"-", "1">>
MyButton2 == MyButton \o <<"-", "2">>

\* the i-th candidate of the probing sequence base, base-1, base-2, ...
NthCandidate(base, i) == IF i = 0 THEN base ELSE base \o <<"-">> \o Decimal(i)

Answers(c) == [i \in DOMAIN qlog[c] |-> qlog[c][i].ans]

\* C1: a generateUniqueSlug call that has returned returned the candidate of
\* the last query it issued, that query reported "free", and no query the
\* call issued for the returned slug reported anything else.
C1_ReturnedSlugReportedFree ==
    \A c \in GenCalls :
        gen[c].pc = "done" =>
            /\ qlog[c] # <<>>
            /\ qlog[c][Len(qlog[c])].cand = gen[c].newSlug
            /\ qlog[c][Len(qlog[c])].ans = "free"
            /\ \A i \in DOMAIN qlog[c] :
                  qlog[c][i].cand = gen[c].newSlug => qlog[c][i].ans = "free"

\* a call returned after at least one collision
C1_Witness ==
    \E c \in GenCalls : gen[c].pc = "done" /\ Len(qlog[c]) >= 2

\* C2: the candidates a call queries are, in order, base, base-1, base-2, ...
\* with base = generateSlug(name): the i-th query after the first carries
\* suffix i, and the locals agree with the position in that sequence.
C2_CandidateSequence ==
    \A c \in GenCalls :
        /\ \A i \in DOMAIN qlog[c] :
              qlog[c][i].cand =
                  NthCandidate(generateSlug(gen[c].baseName), i - 1)
        /\ gen[c].pc \in {"L45", "L50"} =>
              /\ gen[c].newSlug = qlog[c][Len(qlog[c])].cand
              /\ gen[c].suffix = Len(qlog[c]) - 1

\* a call that probed base, base-1 and base-2
C2_Witness ==
    \E c \in GenCalls :
        /\ Len(qlog[c]) >= 3
        /\ qlog[c][3].cand = MyButton2

\* C3: once the oracle has reported the first k candidates taken and the
\* next one free, the call has returned that candidate, base-k, with exactly
\* k+1 queries issued; no query follows a "free" report.  With my-button and
\* my-button-1 taken and my-button-2 free the result is my-button-2 after 3
\* queries.
C3_ReturnsAfterKTaken ==
    \A c \in GenCalls :
        LET n == Len(qlog[c])
            base == generateSlug(gen[c].baseName)
        IN /\ \A i \in 1..(n - 1) : qlog[c][i].ans # "free"
           /\ (n > 0 /\ qlog[c][n].ans = "free"
                  /\ \A i \in 1..(n - 1) : qlog[c][i].ans = "taken") =>
                 /\ gen[c].pc = "done"
                 /\ gen[c].newSlug = NthCandidate(base, n - 1)
           /\ (gen[c].baseName = MyButtonName
                  /\ Answers(c) = <<"taken", "taken", "free">>) =>
                 /\ gen[c].pc = "done"
                 /\ gen[c].newSlug = MyButton2

\* the scenario: my-button and my-button-1 taken, my-button-2 free
C3_Witness ==
    \E c \in GenCalls :
        /\ gen[c].pc = "done"
        /\ gen[c].baseName = MyButtonName
        /\ Answers(c) = <<"taken", "taken", "free">>
        /\ gen[c].newSlug = MyButton2

\* C4: a call whose queries were all reported taken issues at most
\* RetryBound queries, and after RetryBound taken reports it has ended in
\* the exhausted condition.
C4_ProbingIsBounded ==
    \A c \in GenCalls :
        LET n == Len(qlog[c])
        IN (\A i \in 1..(n - 1) : qlog[c][i].ans = "taken") =>
              /\ n <= RetryBound
              /\ (n = RetryBound /\ qlog[c][n].ans = "taken") =>
                    gen[c].pc = "exhausted"

\* C5: a failed oracle query ends the call: it is the last query the call
\* issues, so it never advances the suffix to a further candidate.
C5_FailedQueryStopsProbing ==
    \A c \in GenCalls :
        \A i \in DOMAIN qlog[c] :
            qlog[c][i].ans = "error" => i = Len(qlog[c])

----------------------------------------------------------------------------
(* Properties of checkSlug, under SpecChecker *)

\* call k resumes from its await in this step
Resumes(k) == chk[k].pc = "await" /\ chk'[k].pc = "done"

\* C6: when the oracle query of a checkSlug call fails, the state the call
\* leaves reports the candidate neither as available nor as taken.
C6_FailureIsNoVerdict ==
    [][\A k \in CheckCalls :
          (Resumes(k) /\ chk'[k].ans = "error") =>
              /\ slugAvailable' # "true"
              /\ ~(slugAvailable' = "false" /\ slugError' = TakenMessage)]_vars

\* the verdict for call k's candidate, as the atoms would show it
VerdictShown(k) ==
    IF ~isValidSlug(chk[k].slug)
    THEN slugAvailable = "false" /\ slugError = InvalidFormatMessage
    ELSE IF chk[k].ans = "free"
    THEN slugAvailable = "true" /\ slugError = "null"
    ELSE slugAvailable = "false"

\* C7: last request wins: the response of a call that is no longer the most
\* recently started one changes none of the atoms, and once every started
\* call has completed the atoms show the verdict of the most recently
\* started call.
C7_LastRequestWins ==
    /\ [][\A k \in CheckCalls :
             (Resumes(k) /\ k # latest) => UNCHANGED atoms]_vars
    /\ []((latest # 0 /\ \A k \in CheckCalls : chk[k].pc # "await") =>
             (~slugChecking /\ VerdictShown(latest)))

\* C8: a checkSlug call on a slug that fails isValidSlug completes in one
\* step, issues no oracle query and leaves available = false with the
\* error "Invalid slug format".
C8_InvalidShortCircuits ==
    /\ [](\A k \in CheckCalls :
             (chk[k].pc # "idle" /\ ~isValidSlug(chk[k].slug)) =>
                 (chk[k].pc = "done" /\ chk[k].queried = <<>>
                     /\ chk[k].ans = "none"))
    /\ [][\A k \in CheckCalls :
             (chk[k].pc = "idle" /\ chk'[k].pc # "idle"
                 /\ ~isValidSlug(chk'[k].slug)) =>
                 /\ slugAvailable' = "false"
                 /\ slugError' = InvalidFormatMessage
                 /\ UNCHANGED <<components, qlog>>]_vars

\* the spec's scenario: "Invalid Slug!" was checked
C8_Witness ==
    \E k \in CheckCalls :
        /\ chk[k].pc = "done"
        /\ chk[k].slug = InvalidSlugInput
        /\ chk[k].queried = <<>>
        /\ slugAvailable = "false"
        /\ slugError = InvalidFormatMessage

\* C9: a checkSlug call on a slug that passes isValidSlug issues exactly one
\* oracle query, for that slug itself, whatever the oracle answers.
C9_OneQueryPerValidCheck ==
    \A k \in CheckCalls :
        (chk[k].pc # "idle" /\ isValidSlug(chk[k].slug)) =>
            chk[k].queried = <<chk[k].slug>>

\* a check whose slug was reported taken has completed without probing
C9_Witness ==
    \E k \in CheckCalls :
        /\ chk[k].pc = "done"
        /\ chk[k].ans = "taken"
        /\ chk[k].queried = <<chk[k].slug>>

\* C10: checking is true whenever the query of the most recently started
\* checkSlug call is still outstanding.
C10_CheckingWhileOutstanding ==
    (latest # 0 /\ chk[latest].pc = "await") => slugChecking = TRUE

----------------------------------------------------------------------------
(* Form instances: every component that calls useComponentSlug reads the   *)
(* three atoms through useAtom; the atoms are module-level, so every       *)
(* instance reads the same ones.                                           *)

FormInstances == {1, 2}

\* the form instance through which call k is made: the calls alternate
InstanceOf(k) == IF k % 2 = 1 THEN 1 ELSE 2

\* slugAvailable, slugChecking and slugError as useComponentSlug returns
\* them in form instance i
ObservedBy(i) == <<slugAvailable, slugChecking, slugError>>

\* C11: a step of a checkSlug call made through one form instance changes
\* none of the values observed through another form instance.
C11_InstancesIsolated ==
    [][\A k \in CheckCalls :
          chk'[k] # chk[k] =>
              \A i \in FormInstances \ {InstanceOf(k)} :
                  ObservedBy(i)' = ObservedBy(i)]_vars

----------------------------------------------------------------------------
(* Namespaces *)

\* the user whose session runs the hook (the owner of the form's component)
CurrentUser == "u1"

\* the current user owns a row with this slug
OwnsRow(slug) ==
    \E r \in components : r.component_slug = slug /\ r.user_id = CurrentUser

\* C12: a slug is reported taken, to checkSlug or to generateUniqueSlug,
\* only if the current user owns a row with that slug; rows of other users
\* never make it taken.
C12_TakenOnlyInOwnNamespace ==
    /\ \A k \in CheckCalls :
          chk[k].ans = "taken" => OwnsRow(chk[k].slug)
    /\ \A c \in DOMAIN qlog :
          \A i \in DOMAIN qlog[c] :
              qlog[c][i].ans = "taken" => OwnsRow(qlog[c][i].cand)

----------------------------------------------------------------------------
(* Two generateUniqueSlug calls in flight at once *)

RaceCalls == {1, 2}

ABName == <<"A","-","-","b">>

\* names handed to the two calls
RaceNames == {MyButtonName, ABName}

\* rows the "components" table may hold in these behaviours
RaceRows ==
    {[component_slug |-> s, user_id |-> CurrentUser] :
        s \in {MyButton, MyButton1}}

InitRace ==
    /\ components \in SUBSET RaceRows
    /\ gen = [c \in RaceCalls |-> IdleGen]
    /\ qlog = [c \in RaceCalls |-> <<>>]
    /\ chk = [k \in CheckCalls |-> IdleCheck]
    /\ latest = 0
    /\ slugAvailable = "null"
    /\ slugChecking = FALSE
    /\ slugError = "null"
    /\ form = InitialForm(TRUE)
    /\ video = InitialVideo("null", "absent")

NextRace ==
    \/ \E c \in RaceCalls, name \in RaceNames : GenStart(c, name)
    \/ \E c \in RaceCalls : GenReturn(c)
    \/ \E c \in RaceCalls : GenRetry(c)
    \/ \E row \in RaceRows : StoreInsert(row)

SpecRace == InitRace /\ [][NextRace]_vars

Awaiting(c) == gen[c].pc \in {"L45", "L50"}

\* C13: the resolver reserves nothing.  While the table holds no row for a
\* candidate, every call awaiting the query for that candidate can return
\* it, also when another call for the same name has already returned it: so
\* two concurrent calls can both return the same slug.
C13_ReturnReservesNothing ==
    \A c \in RaceCalls : \A d \in RaceCalls \ {c} :
        (/\ Awaiting(d)
         /\ gen[c].pc = "done" \/ Awaiting(c)
         /\ gen[c].newSlug = gen[d].newSlug
         /\ MatchingRows(gen[d].newSlug) = {}) =>
            ENABLED GenReturn(d)

\* both calls returned the same slug for the same name, and the table still
\* holds no row for it
C13_Witness ==
    /\ gen[1].pc = "done" /\ gen[2].pc = "done"
    /\ gen[1].baseName = gen[2].baseName
    /\ gen[1].newSlug = gen[2].newSlug
    /\ qlog[1][Len(qlog[1])].ans = "free"
    /\ qlog[2][Len(qlog[2])].ans = "free"
    /\ MatchingRows(gen[1].newSlug) = {}

\* C14: the locals of a call belong to that call.  Under every interleaving
\* each call queries base, base-1, base-2, ... for its own base, and a step
\* of one call changes neither the locals nor the query log of another.
C14_CallStateIsLocal ==
    /\ [](\A c \in RaceCalls :
             /\ \A i \in DOMAIN qlog[c] :
                   qlog[c][i].cand =
                       NthCandidate(generateSlug(gen[c].baseName), i - 1)
             /\ Awaiting(c) => gen[c].suffix = Len(qlog[c]) - 1)
    /\ [][\A c \in RaceCalls : \A d \in RaceCalls \ {c} :
             gen'[c] # gen[c] => (gen'[d] = gen[d] /\ qlog'[d] = qlog[d])]_vars

\* two calls with different bases, both in flight after collisions, at
\* different positions of their sequences
C14_Witness ==
    /\ Awaiting(1) /\ Awaiting(2)
    /\ generateSlug(gen[1].baseName) # generateSlug(gen[2].baseName)
    /\ Len(qlog[1]) = 2
    /\ Len(qlog[2]) = 3

----------------------------------------------------------------------------
(* A generateUniqueSlug call and checkSlug calls of one session, with the  *)
(* table and the other sessions writing to it                              *)

JointChecks == 1..MaxJointChecks

\* slugs typed into the manual-edit field in these behaviours
JointInputs == {InvalidSlugInput, MyButton}

InitAll ==
    /\ components \in SUBSET RaceRows
    /\ gen = [c \in GenCalls |-> IdleGen]
    /\ qlog = [c \in GenCalls |-> <<>>]
    /\ chk = [k \in CheckCalls |-> IdleCheck]
    /\ latest = 0
    /\ slugAvailable = "null"
    /\ slugChecking = FALSE
    /\ slugError = "null"
    /\ form = InitialForm(TRUE)
    /\ video = InitialVideo("null", "absent")

NextAll ==
    \/ \E c \in GenCalls, name \in RaceNames : GenStart(c, name)
    \/ \E c \in GenCalls : GenReturn(c)
    \/ \E c \in GenCalls : GenRetry(c)
    \/ \E k \in JointChecks, slug \in JointInputs : CheckSlugInvalid(k, slug)
    \/ \E k \in JointChecks, slug \in JointInputs : CheckSlugStart(k, slug)
    \/ \E k \in JointChecks : CheckSlugResume(k)
    \/ \E row \in RaceRows : StoreInsert(row)

SpecAll == InitAll /\ [][NextAll]_vars

\* C15: checkSlugUnique, generateUniqueSlug and checkSlug only read the
\* table: every step that changes a call's locals, its query log or an atom
\* leaves the rows of the table as they were.
C15_StoreOnlyRead ==
    [][(gen' # gen \/ qlog' # qlog \/ chk' # chk \/ atoms' # atoms) =>
           components' = components]_vars

\* a generateUniqueSlug call and a checkSlug call have both queried a
\* non-empty table and completed
C15_Witness ==
    /\ components # {}
    /\ \E c \in GenCalls : gen[c].pc = "done" /\ Len(qlog[c]) >= 2
    /\ \E k \in JointChecks : chk[k].pc = "done" /\ chk[k].ans = "taken"

----------------------------------------------------------------------------
(* The resolver with a table no other session writes to, and every awaited *)
(* query eventually resolving                                              *)

\* rows the table may hold in these behaviours: candidates of my-button
QuietRows ==
    {[component_slug |-> IF i = 0 THEN MyButton
                         ELSE MyButton \o <<"-">> \o Decimal(i),
      user_id |-> CurrentUser] : i \in 0..MaxSuffix}

InitQuiet ==
    /\ components \in SUBSET QuietRows
    /\ gen = [c \in GenCalls |-> IdleGen]
    /\ qlog = [c \in GenCalls |-> <<>>]
    /\ chk = [k \in CheckCalls |-> IdleCheck]
    /\ latest = 0
    /\ slugAvailable = "null"
    /\ slugChecking = FALSE
    /\ slugError = "null"
    /\ form = InitialForm(TRUE)
    /\ video = InitialVideo("null", "absent")

NextQuiet ==
    \/ \E c \in GenCalls, name \in GenNames : GenStart(c, name)
    \/ \E c \in GenCalls : GenReturn(c)
    \/ \E c \in GenCalls : GenRetry(c)

SpecQuietFair ==
    /\ InitQuiet
    /\ [][NextQuiet]_vars
    /\ \A c \in GenCalls : WF_vars(GenReturn(c)) /\ WF_vars(GenRetry(c))

\* some candidate of the call's sequence, within the probing bound, has no
\* row in the table
SomeCandidateFree(c) ==
    \E i \in 0..MaxSuffix :
        MatchingRows(NthCandidate(generateSlug(gen[c].baseName), i)) = {}

QueryFailed(c) == \E i \in DOMAIN qlog[c] : qlog[c][i].ans = "error"

\* C16: with the table unchanged and every query resolving, a call for
\* which some candidate is free eventually returns, unless a query fails
\* (the oracle then reports nothing for that candidate); and a call is
\* still running only while no query of it has been reported free.
C16_EventuallyReturns ==
    /\ \A c \in GenCalls :
          (gen[c].pc # "idle" /\ SomeCandidateFree(c)) ~>
              (gen[c].pc = "done" \/ QueryFailed(c))
    /\ [](\A c \in GenCalls :
             Awaiting(c) => \A i \in DOMAIN qlog[c] : qlog[c][i].ans # "free")

\* a call returned its third candidate without any failed query
C16_Witness ==
    \E c \in GenCalls :
        /\ gen[c].pc = "done"
        /\ ~QueryFailed(c)
        /\ Len(qlog[c]) = 3

----------------------------------------------------------------------------
(* generateSlug applied to every short string, and again to its result     *)

\* an uppercase and a lowercase letter, a digit, the hyphen, punctuation
\* and the space
NameChars == {"a", "B", "1", "-", "!", " "}

\* every string of up to MaxNameLen characters, and the scenarios' names
NameInputs ==
    UNION {[1..n -> NameChars] : n \in 0..MaxNameLen}
        \cup {MyButtonName, StarsName}

InitNormalize ==
    /\ components = {}
    /\ gen = [c \in RaceCalls |-> IdleGen]
    /\ qlog = [c \in RaceCalls |-> <<>>]
    /\ chk = [k \in CheckCalls |-> IdleCheck]
    /\ latest = 0
    /\ slugAvailable = "null"
    /\ slugChecking = FALSE
    /\ slugError = "null"
    /\ form = InitialForm(TRUE)
    /\ video = InitialVideo("null", "absent")

\* call 1 normalizes a name; call 2 normalizes what call 1 computed
NextNormalize ==
    \/ \E name \in NameInputs : GenStart(1, name)
    \/ gen[1].pc # "idle" /\ GenStart(2, gen[1].newSlug)

SpecNormalize == InitNormalize /\ [][NextNormalize]_vars

\* C17: generateSlug is idempotent: applied to its own result it returns
\* that result.
C17_GenerateSlugIdempotent ==
    (gen[2].pc # "idle" /\ gen[2].baseName = gen[1].newSlug) =>
        gen[2].newSlug = gen[1].newSlug

\* "My Button!!" was normalized, and its result normalized again
C17_Witness ==
    /\ gen[1].baseName = MyButtonName
    /\ gen[2].pc # "idle"
    /\ gen[2].baseName = MyButton
    /\ gen[2].newSlug = MyButton

HasUpper(s) == \E i \in DOMAIN s : s[i] \in Range(UpperLetters)

HasDoubledHyphen(s) ==
    \E i \in 1..(Len(s) - 1) : s[i] = "-" /\ s[i + 1] = "-"

\* C18: every result of generateSlug is the empty string or passes
\* isValidSlug, and has no uppercase letter, no leading or trailing hyphen
\* and no doubled hyphen.
C18_OutputEmptyOrValid ==
    \A c \in RaceCalls :
        gen[c].pc # "idle" =>
            LET out == gen[c].newSlug
            IN /\ out = <<>> \/ isValidSlug(out)
               /\ ~HasUpper(out)
               /\ ~HasDoubledHyphen(out)
               /\ out # <<>> => (out[1] # "-" /\ out[Len(out)] # "-")

\* a name with leading and trailing hyphens, punctuation and an uppercase
\* letter gave a non-empty valid slug
C18_Witness ==
    /\ gen[1].baseName = <<"-", "B", "!", "-">>
    /\ gen[1].newSlug = <<"b">>
    /\ isValidSlug(gen[1].newSlug)

\* the reference transformation, position by position: a character of
\* [a-z0-9] of the lowercased input is kept, preceded by one hyphen when it
\* starts a segment that is not the first
RefLower(ch) == IF ch = "B" THEN "b" ELSE IF ch = "M" THEN "m" ELSE ch

RefPiece(l, i) ==
    IF ~IsSlugChar(l[i]) THEN <<>>
    ELSE IF i > 1 /\ ~IsSlugChar(l[i - 1])
              /\ \E j \in 1..(i - 1) : IsSlugChar(l[j])
         THEN <<"-", l[i]>>
         ELSE <<l[i]>>

RECURSIVE RefJoin(_, _)
RefJoin(l, n) == IF n = 0 THEN <<>> ELSE RefJoin(l, n - 1) \o RefPiece(l, n)

RefSlug(x) ==
    LET l == [i \in DOMAIN x |-> RefLower(x[i])] IN RefJoin(l, Len(l))

SlugCharsOf(s) == SelectSeq(s, LAMBDA ch : IsSlugChar(ch))

\* C20: generateSlug returns the reference transformation of its input,
\* keeps the [a-z0-9] characters of the lowercased input in their order,
\* and maps "My Button!!" to "my-button".
C20_MatchesReference ==
    \A c \in RaceCalls :
        gen[c].pc # "idle" =>
            /\ gen[c].newSlug = RefSlug(gen[c].baseName)
            /\ SlugCharsOf(gen[c].newSlug) =
                  SlugCharsOf([i \in DOMAIN gen[c].baseName |->
                                  RefLower(gen[c].baseName[i])])
            /\ gen[c].baseName = MyButtonName => gen[c].newSlug = MyButton

\* "My Button!!" gave "my-button"
C20_Witness ==
    /\ gen[1].pc # "idle"
    /\ gen[1].baseName = MyButtonName
    /\ gen[1].newSlug = MyButton
    /\ gen[2].pc = "idle"

----------------------------------------------------------------------------
(* isValidSlug applied to every short string *)

InitValidate == InitChecker /\ components = {}

\* checkSlug takes its invalid branch or its valid branch on isValidSlug
NextValidate ==
    \/ \E slug \in NameInputs : CheckSlugInvalid(1, slug)
    \/ \E slug \in NameInputs : CheckSlugStart(1, slug)

SpecValidate == InitValidate /\ [][NextValidate]_vars

\* the slug grammar, condition by condition
RefValid(s) ==
    /\ s # <<>>
    /\ \A i \in DOMAIN s : IsSlugChar(s[i]) \/ s[i] = "-"
    /\ s[1] # "-"
    /\ s[Len(s)] # "-"
    /\ ~HasDoubledHyphen(s)

\* C19: isValidSlug accepts exactly the non-empty strings of [a-z0-9]
\* segments separated by single hyphens: checkSlug takes the valid branch
\* for those and the invalid branch for every other string.
C19_ValidatorGrammar ==
    \A k \in CheckCalls :
        chk[k].pc # "idle" =>
            /\ chk[k].pc = "await" <=> RefValid(chk[k].slug)
            /\ chk[k].pc = "done" <=> ~RefValid(chk[k].slug)
            /\ (chk[k].slug = <<>> \/ HasUpper(chk[k].slug)
                   \/ HasDoubledHyphen(chk[k].slug)) => chk[k].pc = "done"

\* a slug of two segments was accepted
C19_Witness ==
    /\ chk[1].pc = "await"
    /\ chk[1].slug = <<"a", "-", "1", "a">>


----------------------------------------------------------------------------
(* Further properties of generateSlug, under SpecNormalize *)

AlphaNumerics ==
    {"a","b","c","d","e","f","g","h","i","j","k","l","m","n","o","p","q","r",
     "s","t","u","v","w","x","y","z","0","1","2","3","4","5","6","7","8","9"}

\* the lowercased string has a character of [a-z0-9]
HasAlphaNumeric(x) == \E i \in DOMAIN x : RefLower(x[i]) \in AlphaNumerics

\* C21: generateSlug returns the empty string exactly when the lowercased
\* input has no character of [a-z0-9]; "" and "***" give ""; and it returns
\* a string for every input.
C21_EmptyIffNoAlphaNumeric ==
    \A c \in RaceCalls :
        gen[c].pc # "idle" =>
            /\ gen[c].newSlug = <<>> <=> ~HasAlphaNumeric(gen[c].baseName)
            /\ gen[c].baseName \in {<<>>, StarsName} => gen[c].newSlug = <<>>
            /\ DOMAIN gen[c].newSlug = 1..Len(gen[c].newSlug)
            /\ \A i \in DOMAIN gen[c].newSlug :
                  gen[c].newSlug[i] \in AlphaNumerics \cup {"-"}

\* "***" gave the empty string, and the empty string gave itself
C21_Witness ==
    /\ gen[1].baseName = StarsName
    /\ gen[1].newSlug = <<>>
    /\ gen[2].pc # "idle"
    /\ gen[2].baseName = <<>>
    /\ gen[2].newSlug = <<>>


----------------------------------------------------------------------------
(* Further properties of generateUniqueSlug *)

\* C22: every slug a generateUniqueSlug call has returned passes
\* isValidSlug, whatever the name, names that normalize to the empty
\* string included.
C22_ReturnedSlugValid ==
    \A c \in GenCalls : gen[c].pc = "done" => isValidSlug(gen[c].newSlug)


\* C23: with no other session writing to the table and no failed query, a
\* call that has returned returned the first free candidate of base,
\* base-1, base-2, ...: the returned candidate has no row, and every earlier
\* candidate of the sequence has one.
C23_ReturnsFirstFree ==
    \A c \in GenCalls :
        (gen[c].pc = "done" /\ ~QueryFailed(c)) =>
            LET base == generateSlug(gen[c].baseName)
                k == Len(qlog[c]) - 1
            IN /\ gen[c].newSlug = NthCandidate(base, k)
               /\ MatchingRows(gen[c].newSlug) = {}
               /\ \A i \in 0..(k - 1) :
                     MatchingRows(NthCandidate(base, i)) # {}

\* my-button and my-button-1 have rows, my-button-2 has none, and the call
\* returned my-button-2 without a failed query
C23_Witness ==
    \E c \in GenCalls :
        /\ gen[c].pc = "done"
        /\ ~QueryFailed(c)
        /\ gen[c].newSlug = MyButton2
        /\ MatchingRows(MyButton) # {}
        /\ MatchingRows(MyButton1) # {}
        /\ MatchingRows(MyButton2) = {}


----------------------------------------------------------------------------
(* Further properties of checkSlug, under SpecChecker *)

NoCheckInFlight == \A k \in CheckCalls : chk[k].pc # "await"

\* C24: whenever no checkSlug call is in flight, the atoms agree: available
\* true comes with no error, and available false comes with one of the two
\* messages, in whatever order overlapping calls complete.
C24_AvailableAgreesWithError ==
    NoCheckInFlight =>
        /\ slugAvailable = "true" => slugError = "null"
        /\ slugAvailable = "false" =>
               slugError \in {InvalidFormatMessage, TakenMessage}


\* a session that starts a check only once the previous one has completed
NextSerial ==
    \/ \E k \in CheckCalls, slug \in CheckInputs :
          NoCheckInFlight /\ CheckSlugInvalid(k, slug)
    \/ \E k \in CheckCalls, slug \in CheckInputs :
          NoCheckInFlight /\ CheckSlugStart(k, slug)
    \/ \E k \in CheckCalls : CheckSlugResume(k)
    \/ \E row \in CheckerRows : StoreInsert(row)

SpecSerial == InitChecker /\ [][NextSerial]_vars

\* C25: a checkSlug call on a valid candidate that overlaps no other check
\* ends with checking false, available equal to what the oracle reported
\* for the candidate, and the error "This slug is already taken" when it
\* reported taken, null when it reported free.
C25_SingleCheckVerdict ==
    \A k \in CheckCalls :
        (chk[k].pc = "done" /\ chk[k].queried # <<>> /\ latest = k) =>
            /\ slugChecking = FALSE
            /\ chk[k].ans = "free" =>
                  slugAvailable = "true" /\ slugError = "null"
            /\ chk[k].ans = "taken" =>
                  slugAvailable = "false" /\ slugError = TakenMessage

\* after a check that ended with "Invalid slug format", a check of
\* my-button was reported free, and a third was reported taken
C25_Witness ==
    /\ chk[1].pc = "done" /\ chk[1].queried = <<>>
    /\ chk[2].pc = "done" /\ chk[2].ans = "free"
    /\ chk[3].pc = "done" /\ chk[3].ans = "taken"
    /\ slugAvailable = "false"
    /\ slugError = TakenMessage

\* C26: whenever no checkSlug call is in flight checking is false (checking
\* is true only while some call has started and not completed), and every
\* step that completes a call, on the invalid-format path or the oracle
\* path, leaves checking false.
C26_CheckingFalseWhenIdle ==
    /\ [](NoCheckInFlight => slugChecking = FALSE)
    /\ [][\A k \in CheckCalls :
             (chk[k].pc # "done" /\ chk'[k].pc = "done") =>
                 slugChecking' = FALSE]_vars

\* a call completed on the oracle path while a later call was still in
\* flight
C26_Witness ==
    /\ chk[1].pc = "done" /\ chk[1].ans \in {"free", "taken"}
    /\ chk[2].pc = "await"
    /\ slugChecking = FALSE

\* C27: available is null only while no checkSlug call has delivered a
\* verdict; once set to true or false it is never null again, and the start
\* of a check of a later candidate leaves the earlier verdict in place.
C27_AvailableNeverBackToNull ==
    /\ [](slugAvailable = "null" <=> \A k \in CheckCalls : chk[k].pc # "done")
    /\ [][slugAvailable # "null" => slugAvailable' # "null"]_vars
    /\ [][\A k \in CheckCalls :
             (chk[k].pc = "idle" /\ chk'[k].pc = "await") =>
                 slugAvailable' = slugAvailable]_vars

\* my-button was reported free, and my-button-1 is being checked with the
\* earlier verdict still shown
C27_Witness ==
    /\ chk[1].pc = "done" /\ chk[1].slug = MyButton /\ chk[1].ans = "free"
    /\ chk[2].pc = "await" /\ chk[2].slug = MyButton1
    /\ slugAvailable = "true"
    /\ slugChecking = TRUE


----------------------------------------------------------------------------
(* Frame of generateUniqueSlug and checkSlugUnique, under SpecAll *)

\* C28: no step of generateUniqueSlug, nor of the checkSlugUnique calls it
\* awaits, changes available, checking or error, whatever the oracle
\* answers, failed queries included.
C28_ResolverLeavesAtoms ==
    [][(gen' # gen \/ qlog' # qlog) => atoms' = atoms]_vars

\* a generateUniqueSlug call returned after a failed query while a checkSlug
\* verdict was shown and another check was in flight
C28_Witness ==
    /\ \E c \in GenCalls : gen[c].pc = "done" /\ QueryFailed(c)
    /\ chk[1].pc = "done"
    /\ chk[2].pc = "await"
    /\ slugAvailable = "false"
    /\ slugChecking = TRUE


----------------------------------------------------------------------------
(* Specification of ComponentDetailsForm *)

InitForm ==
    /\ components = {}
    /\ gen = [c \in GenCalls |-> IdleGen]
    /\ qlog = [c \in GenCalls |-> <<>>]
    /\ chk = [k \in CheckCalls |-> IdleCheck]
    /\ latest = 0
    /\ slugAvailable = "null"
    /\ slugChecking = FALSE
    /\ slugError = "null"
    /\ \E isSlugReadOnly \in BOOLEAN : form = InitialForm(isSlugReadOnly)
    /\ video = InitialVideo("null", "absent")

NextForm ==
    \/ \E value \in FormSlugs : SlugFieldChange(value)
    \/ \E res \in HookResults : SlugHookResult(res)
    \/ \E value \in FormSlugs : PrefillSlug(value)

SpecForm == InitForm /\ [][NextForm]_vars

\* the conditions under which a verdict on the slug is rendered
VerdictConditions ==
    /\ Len(form.component_slug) > 0
    /\ form.slugError = "null"
    /\ form.isSlugManuallyEdited
    /\ ~form.isSlugChecking

\* C29: "This slug is available" is rendered only for a non-empty slug, no
\* slug error, a manually edited slug, no check in progress and isAvailable
\* exactly true; under the same conditions with isAvailable false or
\* undefined the "already have a component" message is rendered; and
\* isSlugManuallyEdited never goes back to false.
C29_AvailableMessageOnlyWhenTrue ==
    /\ [](form.statusShown = AvailableMessage =>
              VerdictConditions /\ form.slugAvailable = "true")
    /\ []((VerdictConditions /\ form.slugAvailable # "true") =>
              form.statusShown = OwnedMessage)
    /\ [][form.isSlugManuallyEdited => form'.isSlugManuallyEdited]_vars

\* the slug was typed in, no check is running and the hook has not reported
\* yet: the "already have a component" message is rendered
C29_Witness ==
    /\ form.isSlugManuallyEdited
    /\ form.component_slug = MyButton
    /\ form.slugAvailable = "undefined"
    /\ ~form.isSlugChecking
    /\ form.slugError = "null"
    /\ form.statusShown = OwnedMessage


----------------------------------------------------------------------------
(* Specification of ComponentVideoPreview *)

InitVideo ==
    /\ components = {}
    /\ gen = [c \in GenCalls |-> IdleGen]
    /\ qlog = [c \in GenCalls |-> <<>>]
    /\ chk = [k \in CheckCalls |-> IdleCheck]
    /\ latest = 0
    /\ slugAvailable = "null"
    /\ slugChecking = FALSE
    /\ slugError = "null"
    /\ form = InitialForm(TRUE)
    /\ \E video_url \in {"null", VideoUrl}, icon \in {"absent", "visible"} :
          video = InitialVideo(video_url, icon)

NextVideo ==
    \/ handleMouseEnter
    \/ handleMouseLeave
    \/ PlayFirstFulfilled
    \/ PlayFirstRejected
    \/ PlayReplaySettled

SpecVideo == InitVideo /\ [][NextVideo]_vars

\* C30: isVideoLoaded turns true only in a step that fulfils a play()
\* promise started by a mouse-enter, and never turns false again; a source
\* is assigned and loaded only by a mouse-enter taken with isVideoLoaded
\* false and a video_url; every mouse-leave pauses the video; and with no
\* video_url no source is ever assigned and play() is never called.
C30_VideoPreviewLifecycle ==
    /\ [][(~video.isVideoLoaded /\ video'.isVideoLoaded) =>
              /\ video.pendingFirst > 0
              /\ video'.pendingFirst = video.pendingFirst - 1
              /\ video.plays > 0
              /\ video.enters > 0]_vars
    /\ [][video.isVideoLoaded => video'.isVideoLoaded]_vars
    /\ [][(video'.loads # video.loads \/ video'.src # video.src) =>
              /\ video'.enters = video.enters + 1
              /\ ~video.isVideoLoaded
              /\ video.video_url # "null"
              /\ video'.src = video.video_url
              /\ video'.loads = video.loads + 1]_vars
    /\ [][(video.hovered /\ ~video'.hovered) =>
              video'.paused /\ video'.pauses = video.pauses + 1]_vars
    /\ [](video.video_url = "null" =>
              video.src = "none" /\ video.loads = 0 /\ video.plays = 0
                  /\ video.paused)

\* the first play() was rejected after a mouse-leave, a second mouse-enter
\* loaded the source again and its play() was fulfilled, and a third
\* mouse-enter replayed without loading
C30_Witness ==
    /\ video.isVideoLoaded
    /\ video.icon = "hidden"
    /\ video.enters = 3
    /\ video.loads = 2
    /\ video.plays = 3
    /\ video.pauses = 2
    /\ video.hovered
    /\ ~video.paused

====
